---- MODULE Spec2Model ----
(***************************************************************************)
(* Model of the data refresh and classification pipeline of the Gdansk     *)
(* live transport map (src/App.tsx): fetchWithRetry, the one-shot route    *)
(* reference load (fetchRouteInfo), the vehicle refresh loop               *)
(* (fetchVehicles and the polling effect) and the state they publish.      *)
(***************************************************************************)
EXTENDS Integers, Sequences, FiniteSets, TLC

(***************************************************************************)
(* Bounds of the model.                                                    *)
(***************************************************************************)
\* largest `retries` argument tried on a stand-alone fetchWithRetry call
MaxRetries == 3
\* number of fetchVehicles invocations (immediate call plus timer ticks)
MaxCycles == 3
\* longest routes list / vehicles list given to the pure functions
MaxRoutes == 2
MaxRaw == 2

(***************************************************************************)
(* Program constants.                                                      *)
(***************************************************************************)
\* default parameters of fetchWithRetry (retries = 2, delay = 500)
DefaultRetries == 2
DefaultDelay == 500
\* line 16: const DELAY_THRESHOLD_SECONDS = 120
DELAY_THRESHOLD_SECONDS == 120

(***************************************************************************)
(* HTTP outcomes.  One attempt of fetch(url) either rejects (a network     *)
(* failure, no response at all) or resolves with a response that has a     *)
(* status code and a body.                                                 *)
(***************************************************************************)
\* a body is what response.json() yields: kind "unparsable" (json() rejects),
\* "null" (the JSON value null), "empty" (an object with none of the expected
\* fields), "nolist" (the first dated bucket has no routes member) or "data"
\* (the expected list is there); "none" where the body is never read
Body(kind, list, lastUpdate) ==
    [kind |-> kind, list |-> list, lastUpdate |-> lastUpdate]

NoBody == Body("none", <<>>, "")

NetworkFailure == [failed |-> TRUE, status |-> 0, body |-> NoBody]

Response(status, body) == [failed |-> FALSE, status |-> status, body |-> body]

\* Response.ok of the fetch API: the status is in the range 200-299
ResponseOk(r) == r.status >= 200 /\ r.status <= 299

\* status codes the environment answers with
Statuses == {200, 204, 302, 404, 499, 500, 503}

(***************************************************************************)
(* fetchWithRetry (src/App.tsx 38-55) as a state machine over one call:    *)
(* `i` is the loop counter, `phase` the await the call is suspended at     *)
(* ("fetch": awaiting fetch(url); "backoff": awaiting the setTimeout) or   *)
(* how it ended ("returned": return response; "thrown": throw new Error).  *)
(***************************************************************************)
NoCall == [retries |-> 0, delay |-> 0, i |-> 0, phase |-> "idle",
           response |-> NetworkFailure]

\* entering the function: i = 0 and the first fetch(url) is issued
FetchWithRetryStart(retries, delay) ==
    [retries |-> retries, delay |-> delay, i |-> 0, phase |-> "fetch",
     response |-> NetworkFailure]

\* line 42: if (response.ok || response.status < 500) return response
\* (a rejected fetch never reaches this test: it goes to the catch block)
AcceptableMutOkOnly(r) == ~r.failed /\ ResponseOk(r)

Acceptable(r) == ~r.failed /\ (ResponseOk(r) \/ r.status < 500)

\* line 50: if (i < retries) await the backoff timer
MoreAttemptsMutOffByOne(c) == c.i <= c.retries

MoreAttempts(c) == c.i < c.retries

\* line 51: delay * Math.pow(2, i)
BackoffDelayMutLinear(c) == c.delay * (c.i + 1)

BackoffDelay(c) == c.delay * (2 ^ c.i)

\* the awaited fetch(url) settles with outcome r (lines 41-54)
FetchWithRetryResolve(c, r) ==
    IF Acceptable(r)
    THEN [c EXCEPT !.phase = "returned", !.response = r]
    ELSE IF MoreAttempts(c)
         THEN [c EXCEPT !.phase = "backoff"]
         ELSE [c EXCEPT !.phase = "thrown"]

\* the backoff timer fires: i++ and the next fetch(url) is issued (line 39)
FetchWithRetryWake(c) == [c EXCEPT !.i = c.i + 1, !.phase = "fetch"]

Terminal(c) == c.phase \in {"returned", "thrown"}

(***************************************************************************)
(* Route short names are sequences of characters, so that the regular      *)
(* expression of the classifier and the exact-key lookup of the enrichment *)
(* are computed on the characters.                                         *)
(***************************************************************************)
Digits == {"0", "1", "2", "3", "4", "5", "6", "7", "8", "9"}

Names ==
    { <<>>, <<"5">>, <<"1", "2">>, <<"1", "2", "5">>,
      <<"N", "1">>, <<"n", "1">>, <<"1", "N">> }

\* an element of the routes array: null, or a Route object (types.ts 32-38)
NullRoute == [isNull |-> TRUE, routeShortName |-> <<>>]

Route(name) == [isNull |-> FALSE, routeShortName |-> name]

RouteEntries == {NullRoute} \cup {Route(n) : n \in Names}

\* RawVehicle (types.ts 14-24); the fields no claim reads are left out
RawVehicle(id, name, delay) ==
    [vehicleId |-> id, routeShortName |-> name, delay |-> delay]

\* Vehicle (types.ts 1-12): { ...v, vehicleType }
Vehicle(v, kind) ==
    [vehicleId |-> v.vehicleId, routeShortName |-> v.routeShortName,
     delay |-> v.delay, vehicleType |-> kind]

\* new Map(): a function from the keys set so far to "BUS" or "TRAM"
EmptyMap == [n \in {} |-> "BUS"]

MapSize(m) == Cardinality(DOMAIN m)

MapSet(m, k, v) == [x \in (DOMAIN m) \cup {k} |-> IF x = k THEN v ELSE m[x]]

\* line 233: /^\d{1,2}$/.test(route.routeShortName)
IsTramNameMutAnyDigits(name) ==
    Len(name) >= 1 /\ \A k \in 1..Len(name) : name[k] \in Digits

IsTramName(name) ==
    /\ Len(name) \in {1, 2}
    /\ \A k \in 1..Len(name) : name[k] \in Digits

\* lines 232-236: the body of the for loop over routes
RouteInfoStep(m, route) ==
    IF ~route.isNull /\ route.routeShortName # <<>>
    THEN MapSet(m, route.routeShortName,
                IF IsTramName(route.routeShortName) THEN "TRAM" ELSE "BUS")
    ELSE m

\* lines 230-237: newRouteInfo after the loop over routes
RECURSIVE RouteInfoFrom(_, _)
RouteInfoFrom(m, routes) ==
    IF routes = <<>> THEN m
    ELSE RouteInfoFrom(RouteInfoStep(m, Head(routes)), Tail(routes))

BuildRouteInfo(routes) == RouteInfoFrom(EmptyMap, routes)

\* line 261: routeInfo.get(v.routeShortName) || 'BUS'
VehicleTypeOfMutHeuristic(info, name) ==
    IF name \in DOMAIN info THEN info[name]
    ELSE IF IsTramName(name) THEN "TRAM" ELSE "BUS"

VehicleTypeOf(info, name) ==
    IF name \in DOMAIN info THEN info[name] ELSE "BUS"

\* lines 259-262: data.vehicles.map(v => ({ ...v, vehicleType }))
Enrich(raw, info) ==
    [k \in 1..Len(raw) |->
        Vehicle(raw[k], VehicleTypeOf(info, raw[k].routeShortName))]

\* all sequences over S of length at most n
SeqsUpTo(S, n) == UNION {[1..k -> S] : k \in 0..n}

VARIABLES
    \* component state of App (lines 163-169)
    vehicles,       \* useState<Vehicle[]>([])
    routeInfo,      \* useState(new Map())
    lastUpdate,     \* useState('')
    isLoading,      \* useState(true)
    initError,      \* useState(null)
    apiError,       \* useState(null)
    isInitialLoad,  \* useRef(true)
    \* control state of App
    lifecycle,      \* "created", "mounted" or "unmounted"
    effectPending,  \* a render has changed the polling effect's dependencies
    intervalId,     \* "none", "active" (setInterval) or "cleared" (clearInterval)
    routeCall,      \* the fetchWithRetry call of fetchRouteInfo
    cycles,         \* the fetchVehicles invocations, in the order they started
    lastDone,       \* the fetchVehicles invocation that completed last, how
                    \* it ended, and how the one that completed before it did;
                    \* the successful one that completed last and its payload;
                    \* the successful one with a timestamp that completed last
    \* a stand-alone fetchWithRetry call
    call,           \* its state
    events,         \* what it did, in order: attempts and waits
    \* the pure functions on their own
    inRoutes,       \* a routes list
    newRouteInfo,   \* the reference mapping built from it
    inVehicles,     \* a data.vehicles list
    enrichedVehicles, \* its enrichment
    purePc,         \* "input", "built" or "enriched"
    \* the filter engine on its own
    snapshot,       \* the vehicles it is given
    filters,        \* useState<Filters> (lines 171-175)
    filteredVehicles, \* useMemo (lines 296-316)
    tramCount,      \* useMemo (line 318)
    busCount        \* useMemo (line 319)

stateVars == <<vehicles, routeInfo, lastUpdate, isLoading, initError, apiError,
               isInitialLoad>>

controlVars == <<lifecycle, effectPending, intervalId, routeCall, cycles,
                 lastDone>>

appVars == <<stateVars, controlVars>>

retryVars == <<call, events>>

pureVars == <<inRoutes, newRouteInfo, inVehicles, enrichedVehicles, purePc,
              snapshot, filters, filteredVehicles, tramCount, busCount>>

classifyVars == <<inRoutes, newRouteInfo, inVehicles, enrichedVehicles, purePc>>

filterVars == <<snapshot, filters, filteredVehicles, tramCount, busCount>>

\* lines 171-175: the initial filters
DefaultFilters == [line |-> <<>>, type |-> "ALL", delay |-> "ALL"]

vars == <<appVars, retryVars, pureVars>>

Null == "null"

InitErrorMessage == "Nie mozna zaladowac kluczowych informacji o liniach."

ApiErrorMessage == "Wystapil problem podczas aktualizacji pozycji pojazdow."

\* the application is not running: the values the variables of App hold while
\* a pure function or a stand-alone call is examined
AppIdle ==
    /\ vehicles = <<>>
    /\ routeInfo = EmptyMap
    /\ lastUpdate = ""
    /\ isLoading = TRUE
    /\ initError = Null
    /\ apiError = Null
    /\ isInitialLoad = TRUE
    /\ lifecycle = "created"
    /\ effectPending = FALSE
    /\ intervalId = "none"
    /\ routeCall = NoCall
    /\ cycles = <<>>
    /\ lastDone = [cycle |-> 0, outcome |-> "none", previous |-> "none",
                   response |-> NetworkFailure,
                   okCycle |-> 0, okBody |-> NoBody,
                   stampCycle |-> 0, stamp |-> ""]

RetryIdle == call = NoCall /\ events = <<>>

PureIdle ==
    /\ inRoutes = <<>>
    /\ newRouteInfo = EmptyMap
    /\ inVehicles = <<>>
    /\ enrichedVehicles = <<>>
    /\ purePc = "idle"
    /\ snapshot = <<>>
    /\ filters = DefaultFilters
    /\ filteredVehicles = <<>>
    /\ tramCount = 0
    /\ busCount = 0

(***************************************************************************)
(* The environment of the application: what the two endpoints answer.      *)
(***************************************************************************)
AppRouteLists ==
    { <<>>,
      <<NullRoute, Route(<<>>)>>,
      <<Route(<<"5">>), Route(<<"N", "1">>), Route(<<"5">>)>> }

RouteBodies ==
    {Body(k, <<>>, "") : k \in {"unparsable", "null", "empty", "nolist"}}
        \cup {Body("data", l, "") : l \in AppRouteLists}

Retryable == {NetworkFailure, Response(503, Body("unparsable", <<>>, ""))}

RouteOutcomes ==
    Retryable \cup {Response(s, b) : s \in {200, 404}, b \in RouteBodies}

\* "12" and "n1" are not keys of any reference built from AppRouteLists
VehiclePayloads ==
    { Body("data", <<>>, "t1"),
      Body("data", <<RawVehicle(1, <<"5">>, 200)>>, ""),
      Body("data", <<RawVehicle(2, <<"n", "1">>, 0),
                     RawVehicle(3, <<"1", "2">>, 121)>>, "t2") }

VehicleBodies ==
    {Body(k, <<>>, "") : k \in {"unparsable", "empty"}} \cup VehiclePayloads

VehicleOutcomes ==
    Retryable \cup {Response(200, b) : b \in VehicleBodies}
              \cup {Response(404, Body("unparsable", <<>>, ""))}

(***************************************************************************)
(* fetchRouteInfo (lines 221-244), from the return of fetchWithRetry on.   *)
(***************************************************************************)
\* line 224: if (!response.ok) throw
RouteResponseRejectedMutNoCheck(r) == FALSE

RouteResponseRejected(r) == ~ResponseOk(r)

\* lines 226-228: response.json() rejects, Object.values(null) throws, or
\* Object.values(data)[0]?.routes is undefined
RoutesMissing(body) == body.kind # "data"

\* lines 239-243: the catch block
FetchRouteInfoCatch ==
    /\ initError' = InitErrorMessage
    /\ isLoading' = FALSE
    /\ UNCHANGED routeInfo

\* lines 230-238: build the mapping and setRouteInfo(newRouteInfo)
FetchRouteInfoBuild(body) ==
    /\ routeInfo' = BuildRouteInfo(body.list)
    /\ UNCHANGED <<initError, isLoading>>

(***************************************************************************)
(* fetchVehicles (lines 248-278).                                          *)
(***************************************************************************)
NewCycle ==
    [status |-> "inflight",
     call |-> FetchWithRetryStart(DefaultRetries, DefaultDelay)]

\* lines 249-256, up to the first await: the guard, the loading flag, and
\* the first fetch(url) of fetchWithRetry(VEHICLES_API_URL).  The callback
\* closes over the routeInfo of the render that made it; routeInfo is set
\* once, before the effect that starts the loop, so that is the current one.
FetchVehiclesStart ==
    IF MapSize(routeInfo) = 0
    THEN UNCHANGED <<isLoading, cycles>>
    ELSE /\ isLoading' = (IF isInitialLoad THEN TRUE ELSE isLoading)
         /\ cycles' = Append(cycles, NewCycle)

\* lines 257-259: response.json() rejects, or data.vehicles is undefined
VehiclesMissing(body) == body.kind # "data"

\* lines 265-267: if (data.lastUpdate) setLastUpdate(data.lastUpdate)
NextLastUpdateMutAlways(body) == body.lastUpdate

NextLastUpdate(body) ==
    IF body.lastUpdate # "" THEN body.lastUpdate ELSE lastUpdate

\* lines 259-268: the rest of the try block
FetchVehiclesTry(body) ==
    /\ vehicles' = Enrich(body.list, routeInfo)
    /\ lastUpdate' = NextLastUpdate(body)
    /\ apiError' = Null

\* lines 269-271: the catch block
FetchVehiclesCatchMutBlank ==
    /\ apiError' = ApiErrorMessage
    /\ vehicles' = <<>>
    /\ lastUpdate' = ""

FetchVehiclesCatch ==
    /\ apiError' = ApiErrorMessage
    /\ UNCHANGED <<vehicles, lastUpdate>>

\* lines 272-277: the finally block
FetchVehiclesFinallyMutKeepRef ==
    /\ isLoading' = FALSE
    /\ UNCHANGED isInitialLoad

FetchVehiclesFinally ==
    IF isInitialLoad
    THEN isLoading' = FALSE /\ isInitialLoad' = FALSE
    ELSE UNCHANGED <<isLoading, isInitialLoad>>

(***************************************************************************)
(* The polling effect (lines 280-286).                                     *)
(***************************************************************************)
\* line 281: if (routeInfo.size > 0 && !initError)
PollingGuardMutNoGuard == TRUE

PollingGuard == MapSize(routeInfo) > 0 /\ initError = Null

(***************************************************************************)
(* The application.                                                        *)
(***************************************************************************)
Init == AppIdle /\ RetryIdle /\ PureIdle

\* first render committed: the effect of lines 220-246 calls fetchRouteInfo,
\* which issues the first fetch of fetchWithRetry(ROUTES_API_URL); the
\* polling effect is due as well
Mount ==
    /\ lifecycle = "created"
    /\ lifecycle' = "mounted"
    /\ routeCall' = FetchWithRetryStart(DefaultRetries, DefaultDelay)
    /\ effectPending' = TRUE
    /\ UNCHANGED <<stateVars, intervalId, cycles, lastDone>>
    /\ UNCHANGED <<retryVars, pureVars>>

\* an attempt of the route request settles; when fetchWithRetry returns or
\* throws, fetchRouteInfo runs to its end.  setRouteInfo and setInitError
\* cause a render that changes the dependencies of the polling effect.
RouteAttempt ==
    /\ routeCall.phase = "fetch"
    /\ \E r \in RouteOutcomes :
        LET c == FetchWithRetryResolve(routeCall, r) IN
        /\ routeCall' = c
        /\ IF c.phase = "backoff"
           THEN UNCHANGED <<routeInfo, initError, isLoading, effectPending>>
           ELSE /\ effectPending' = TRUE
                /\ IF \/ c.phase = "thrown"
                      \/ RouteResponseRejected(r)
                      \/ RoutesMissing(r.body)
                   THEN FetchRouteInfoCatch
                   ELSE FetchRouteInfoBuild(r.body)
    /\ UNCHANGED <<vehicles, lastUpdate, apiError, isInitialLoad>>
    /\ UNCHANGED <<lifecycle, intervalId, cycles, lastDone>>
    /\ UNCHANGED <<retryVars, pureVars>>

\* the backoff timer of the route request fires
RouteBackoff ==
    /\ routeCall.phase = "backoff"
    /\ routeCall' = FetchWithRetryWake(routeCall)
    /\ UNCHANGED <<stateVars, lifecycle, effectPending, intervalId, cycles,
                   lastDone>>
    /\ UNCHANGED <<retryVars, pureVars>>

\* the polling effect runs after a render that changed its dependencies
PollingEffect ==
    /\ lifecycle = "mounted"
    /\ effectPending
    /\ effectPending' = FALSE
    /\ IF PollingGuard
       THEN FetchVehiclesStart /\ intervalId' = "active"
       ELSE UNCHANGED <<isLoading, cycles, intervalId>>
    /\ UNCHANGED <<vehicles, routeInfo, lastUpdate, initError, apiError,
                   isInitialLoad>>
    /\ UNCHANGED <<lifecycle, routeCall, lastDone>>
    /\ UNCHANGED <<retryVars, pureVars>>

\* the interval timer fires (every REFRESH_INTERVAL ms while it is set)
TickMutSkipWhileInFlight ==
    /\ intervalId = "active"
    /\ Len(cycles) < MaxCycles
    /\ \A k \in 1..Len(cycles) : cycles[k].status # "inflight"
    /\ FetchVehiclesStart
    /\ UNCHANGED <<vehicles, routeInfo, lastUpdate, initError, apiError,
                   isInitialLoad>>
    /\ UNCHANGED <<lifecycle, effectPending, intervalId, routeCall, lastDone>>
    /\ UNCHANGED <<retryVars, pureVars>>

Tick ==
    /\ intervalId = "active"
    /\ Len(cycles) < MaxCycles
    /\ FetchVehiclesStart
    /\ UNCHANGED <<vehicles, routeInfo, lastUpdate, initError, apiError,
                   isInitialLoad>>
    /\ UNCHANGED <<lifecycle, effectPending, intervalId, routeCall, lastDone>>
    /\ UNCHANGED <<retryVars, pureVars>>

\* an attempt of the vehicle request of invocation k settles; when
\* fetchWithRetry returns or throws, fetchVehicles runs to its end
CycleAttempt(k) ==
    /\ cycles[k].status = "inflight"
    /\ cycles[k].call.phase = "fetch"
    /\ \E r \in VehicleOutcomes :
        LET c == FetchWithRetryResolve(cycles[k].call, r) IN
        IF c.phase = "backoff"
        THEN /\ cycles' = [cycles EXCEPT ![k].call = c]
             /\ UNCHANGED <<vehicles, lastUpdate, apiError, isLoading,
                            isInitialLoad, lastDone>>
        ELSE IF c.phase = "thrown" \/ VehiclesMissing(r.body)
        THEN /\ FetchVehiclesCatch
             /\ FetchVehiclesFinally
             /\ cycles' = [cycles EXCEPT ![k] =
                              [status |-> "failed", call |-> NoCall]]
             /\ lastDone' = [lastDone EXCEPT
                                !.cycle = k, !.outcome = "failed",
                                !.previous = lastDone.outcome, !.response = r]
        ELSE /\ FetchVehiclesTry(r.body)
             /\ FetchVehiclesFinally
             /\ cycles' = [cycles EXCEPT ![k] =
                              [status |-> "ok", call |-> NoCall]]
             /\ lastDone' = [lastDone EXCEPT
                                !.cycle = k, !.outcome = "ok",
                                !.previous = lastDone.outcome, !.response = r,
                                !.okCycle = k, !.okBody = r.body,
                                !.stampCycle = (IF r.body.lastUpdate # ""
                                                THEN k ELSE lastDone.stampCycle),
                                !.stamp = (IF r.body.lastUpdate # ""
                                           THEN r.body.lastUpdate
                                           ELSE lastDone.stamp)]
    /\ UNCHANGED <<routeInfo, initError>>
    /\ UNCHANGED <<lifecycle, effectPending, intervalId, routeCall>>
    /\ UNCHANGED <<retryVars, pureVars>>

\* the backoff timer of invocation k fires
CycleBackoff(k) ==
    /\ cycles[k].status = "inflight"
    /\ cycles[k].call.phase = "backoff"
    /\ cycles' = [cycles EXCEPT ![k].call = FetchWithRetryWake(cycles[k].call)]
    /\ UNCHANGED <<stateVars, lifecycle, effectPending, intervalId, routeCall,
                   lastDone>>
    /\ UNCHANGED <<retryVars, pureVars>>

\* the component is unmounted: the cleanup of the polling effect (line 284)
\* clears the interval if one was set; requests in flight are not aborted
Unmount ==
    /\ lifecycle = "mounted"
    /\ lifecycle' = "unmounted"
    /\ intervalId' = (IF intervalId = "active" THEN "cleared" ELSE intervalId)
    /\ UNCHANGED <<stateVars, effectPending, routeCall, cycles, lastDone>>
    /\ UNCHANGED <<retryVars, pureVars>>

Next ==
    \/ Mount
    \/ RouteAttempt
    \/ RouteBackoff
    \/ PollingEffect
    \/ Tick
    \/ \E k \in 1..Len(cycles) : CycleAttempt(k)
    \/ \E k \in 1..Len(cycles) : CycleBackoff(k)
    \/ Unmount

Spec == Init /\ [][Next]_vars

(***************************************************************************)
(* A session that is never torn down, in which every request that was      *)
(* issued settles and every timer that was set fires.                      *)
(***************************************************************************)
NextLive ==
    \/ Mount
    \/ RouteAttempt
    \/ RouteBackoff
    \/ PollingEffect
    \/ Tick
    \/ \E k \in 1..Len(cycles) : CycleAttempt(k)
    \/ \E k \in 1..Len(cycles) : CycleBackoff(k)

CycleAttemptOf(k) == k <= Len(cycles) /\ CycleAttempt(k)

CycleBackoffOf(k) == k <= Len(cycles) /\ CycleBackoff(k)

Fairness ==
    /\ WF_vars(Mount)
    /\ WF_vars(RouteAttempt)
    /\ WF_vars(RouteBackoff)
    /\ WF_vars(PollingEffect)
    /\ WF_vars(Tick)
    /\ \A k \in 1..MaxCycles : WF_vars(CycleAttemptOf(k))
    /\ \A k \in 1..MaxCycles : WF_vars(CycleBackoffOf(k))

SpecLive == Init /\ [][NextLive]_vars /\ Fairness

(***************************************************************************)
(* A stand-alone fetchWithRetry(url, retries, delay) call against an       *)
(* arbitrary environment.                                                  *)
(***************************************************************************)
Delays == {DefaultDelay, 100}

AttemptEvent(r) == [ev |-> "attempt", r |-> r, ms |-> 0]

WaitEvent(ms) == [ev |-> "wait", r |-> NetworkFailure, ms |-> ms]

Outcomes == {NetworkFailure} \cup {Response(s, NoBody) : s \in Statuses}

InitRetry ==
    /\ call \in {FetchWithRetryStart(n, d) : n \in 0..MaxRetries, d \in Delays}
    /\ events = <<>>
    /\ AppIdle
    /\ PureIdle

RetryAttempt ==
    /\ call.phase = "fetch"
    /\ \E r \in Outcomes :
        /\ call' = FetchWithRetryResolve(call, r)
        /\ events' = Append(events, AttemptEvent(r))
    /\ UNCHANGED <<appVars, pureVars>>

RetryBackoff ==
    /\ call.phase = "backoff"
    /\ call' = FetchWithRetryWake(call)
    /\ events' = Append(events, WaitEvent(BackoffDelay(call)))
    /\ UNCHANGED <<appVars, pureVars>>

NextRetry == RetryAttempt \/ RetryBackoff

SpecRetry == InitRetry /\ [][NextRetry]_vars

AttemptsOf(es) == SelectSeq(es, LAMBDA e : e.ev = "attempt")

NumAttempts == Len(AttemptsOf(events))

LastAttempt == AttemptsOf(events)[NumAttempts]

\* the claim's own wording of a retryable attempt and of an acceptable one
ClaimAcceptable(r) ==
    ~r.failed /\ ((r.status >= 200 /\ r.status <= 299) \/ r.status < 500)

(***************************************************************************)
(* C1: fetchWithRetry makes at most retries+1 attempts; it throws only     *)
(* after exactly retries+1 attempts that all were retryable; it returns    *)
(* the response of the first acceptable attempt and attempts nothing after *)
(* it.                                                                     *)
(***************************************************************************)
C1_AttemptBound ==
    /\ NumAttempts <= call.retries + 1
    /\ call.phase = "thrown" =>
        /\ NumAttempts = call.retries + 1
        /\ \A k \in 1..NumAttempts : ~ClaimAcceptable(AttemptsOf(events)[k].r)
    /\ call.phase = "returned" =>
        /\ NumAttempts >= 1
        /\ call.response = LastAttempt.r
        /\ ClaimAcceptable(LastAttempt.r)
        /\ \A k \in 1..(NumAttempts - 1) :
              ~ClaimAcceptable(AttemptsOf(events)[k].r)
    /\ (\E k \in 1..NumAttempts : ClaimAcceptable(AttemptsOf(events)[k].r)) =>
        /\ call.phase = "returned"
        /\ ClaimAcceptable(LastAttempt.r)
    /\ Terminal(call) => ~ENABLED NextRetry

\* retries = 2, three failing attempts, terminal error
C1_Witness ==
    /\ call.retries = 2
    /\ call.phase = "thrown"
    /\ NumAttempts = 3

(***************************************************************************)
(* C2: an attempt ends the loop and is returned iff it produced a response *)
(* that is successful or has a status below 500; a 4xx is returned on the  *)
(* first attempt; a status >= 500 and a network failure are both retried,  *)
(* and leave the call in the same state.                                   *)
(***************************************************************************)
C2_AcceptableIff ==
    /\ NumAttempts >= 1 =>
        /\ (call.phase = "returned") <=> ClaimAcceptable(LastAttempt.r)
        /\ (~LastAttempt.r.failed /\ LastAttempt.r.status >= 400
              /\ LastAttempt.r.status < 500) =>
                (call.phase = "returned" /\ call.response = LastAttempt.r)
        /\ (LastAttempt.r.failed \/ LastAttempt.r.status >= 500) =>
                call.phase # "returned"
    /\ call.phase = "fetch" =>
        \A s \in {t \in Statuses : t >= 500} :
            /\ FetchWithRetryResolve(call, Response(s, NoBody))
                 = FetchWithRetryResolve(call, NetworkFailure)
            /\ FetchWithRetryResolve(call, NetworkFailure).phase
                 \in {"backoff", "thrown"}

\* a 404 came back on the very first attempt and was returned
C2_Witness ==
    /\ NumAttempts = 1
    /\ LastAttempt.r.status = 404
    /\ call.phase = "returned"

(***************************************************************************)
(* The pure functions on their own: the reference mapping built from an    *)
(* arbitrary routes list, then the enrichment of an arbitrary vehicles     *)
(* list with it.                                                           *)
(***************************************************************************)
RawVehicles == {RawVehicle(1, n, 0) : n \in Names}

InitClassify ==
    /\ inRoutes \in SeqsUpTo(RouteEntries, MaxRoutes)
    /\ newRouteInfo = EmptyMap
    /\ inVehicles = <<>>
    /\ enrichedVehicles = <<>>
    /\ purePc = "input"
    /\ snapshot = <<>>
    /\ filters = DefaultFilters
    /\ filteredVehicles = <<>>
    /\ tramCount = 0
    /\ busCount = 0
    /\ AppIdle
    /\ RetryIdle

ClassifyBuild ==
    /\ purePc = "input"
    /\ newRouteInfo' = BuildRouteInfo(inRoutes)
    /\ purePc' = "built"
    /\ UNCHANGED <<inRoutes, inVehicles, enrichedVehicles>>
    /\ UNCHANGED <<appVars, retryVars, filterVars>>

ClassifyEnrich ==
    /\ purePc = "built"
    /\ \E raw \in SeqsUpTo(RawVehicles, MaxRaw) :
        /\ inVehicles' = raw
        /\ enrichedVehicles' = Enrich(raw, newRouteInfo)
    /\ purePc' = "enriched"
    /\ UNCHANGED <<inRoutes, newRouteInfo>>
    /\ UNCHANGED <<appVars, retryVars, filterVars>>

NextClassify == ClassifyBuild \/ ClassifyEnrich

SpecClassify == InitClassify /\ [][NextClassify]_vars

(***************************************************************************)
(* The filter engine (lines 296-319).  The line filter is a text, a        *)
(* sequence of characters; split, trim and toUpperCase are computed on the *)
(* characters.                                                             *)
(***************************************************************************)
LowerLetters ==
    <<"a", "b", "c", "d", "e", "f", "g", "h", "i", "j", "k", "l", "m",
      "n", "o", "p", "q", "r", "s", "t", "u", "v", "w", "x", "y", "z">>

UpperLetters ==
    <<"A", "B", "C", "D", "E", "F", "G", "H", "I", "J", "K", "L", "M",
      "N", "O", "P", "Q", "R", "S", "T", "U", "V", "W", "X", "Y", "Z">>

\* String.prototype.toUpperCase, one character
UpperChar(ch) ==
    IF \E k \in 1..Len(LowerLetters) : LowerLetters[k] = ch
    THEN UpperLetters[CHOOSE k \in 1..Len(LowerLetters) : LowerLetters[k] = ch]
    ELSE ch

\* String.prototype.toUpperCase
ToUpperCaseMutIdentity(str) == str

ToUpperCase(str) == [k \in 1..Len(str) |-> UpperChar(str[k])]

\* String.prototype.trim (the only white space of the texts is the blank)
RECURSIVE TrimStart(_)
TrimStart(str) ==
    IF str # <<>> /\ Head(str) = " " THEN TrimStart(Tail(str)) ELSE str

RECURSIVE TrimEnd(_)
TrimEnd(str) ==
    IF str # <<>> /\ str[Len(str)] = " "
    THEN TrimEnd(SubSeq(str, 1, Len(str) - 1))
    ELSE str

Trim(str) == TrimEnd(TrimStart(str))

\* String.prototype.split(','): the pieces between the commas, empty ones
\* included; the empty text gives one empty piece
RECURSIVE Split(_)
Split(str) ==
    IF \E k \in 1..Len(str) : str[k] = ","
    THEN LET c == CHOOSE k \in 1..Len(str) :
                    str[k] = "," /\ \A j \in 1..(k - 1) : str[j] # ","
         IN  <<SubSeq(str, 1, c - 1)>> \o Split(SubSeq(str, c + 1, Len(str)))
    ELSE <<str>>

\* lines 297-300: const lines = filters.line.split(',').map(...).filter(...)
ParseLines(text) ==
    LET pieces == Split(text)
        mapped == [k \in 1..Len(pieces) |-> ToUpperCase(Trim(pieces[k]))]
    IN  SelectSeq(mapped, LAMBDA l : l # <<>>)

\* Array.prototype.includes
Includes(list, x) == \E k \in 1..Len(list) : list[k] = x

\* lines 303-306: the type filter
TypeFilterPass(v, f) == f.type = "ALL" \/ v.vehicleType = f.type

\* line 309: const isDelayed = v.delay > DELAY_THRESHOLD_SECONDS
IsDelayedMutAtLeast(v) == v.delay >= DELAY_THRESHOLD_SECONDS

IsDelayed(v) == v.delay > DELAY_THRESHOLD_SECONDS

\* lines 307-311: the delay filter
DelayFilterPass(v, f) ==
    \/ f.delay = "ALL"
    \/ IF f.delay = "DELAYED" THEN IsDelayed(v) ELSE ~IsDelayed(v)

\* lines 312-315: the line filter
LineFilterPass(v, lines) ==
    Len(lines) = 0 \/ Includes(lines, ToUpperCase(v.routeShortName))

ByType(vs, f) == SelectSeq(vs, LAMBDA v : TypeFilterPass(v, f))

ByDelay(vs, f) == SelectSeq(vs, LAMBDA v : DelayFilterPass(v, f))

ByLine(vs, f) ==
    LET lines == ParseLines(f.line)
    IN  SelectSeq(vs, LAMBDA v : LineFilterPass(v, lines))

\* lines 296-316: filteredVehicles
FilteredVehicles(vs, f) == ByLine(ByDelay(ByType(vs, f), f), f)

CountKind(vs, kind) == Len(SelectSeq(vs, LAMBDA v : v.vehicleType = kind))

\* line 318: tramCount
TramCountMutUnfiltered(vs, f) == CountKind(vs, "TRAM")

TramCount(vs, f) == CountKind(FilteredVehicles(vs, f), "TRAM")

\* line 319: busCount
BusCount(vs, f) == CountKind(FilteredVehicles(vs, f), "BUS")

\* the memoised values of a render with vehicles vs and filters f
Render(vs, f) ==
    /\ filteredVehicles' = FilteredVehicles(vs, f)
    /\ tramCount' = TramCount(vs, f)
    /\ busCount' = BusCount(vs, f)

\* the published vehicles the filter engine is tried on
FilterVehicles ==
    { Vehicle(RawVehicle(1, <<"5">>, 121), "TRAM"),
      Vehicle(RawVehicle(2, <<"5">>, 120), "TRAM"),
      Vehicle(RawVehicle(3, <<"n", "1">>, 200), "BUS"),
      Vehicle(RawVehicle(4, <<"N", "1">>, 0), "BUS"),
      Vehicle(RawVehicle(5, <<"1", "1", "5">>, 121), "BUS"),
      Vehicle(RawVehicle(6, <<"2">>, -30), "TRAM") }

\* the texts typed into the line filter: "", "5", "n1", " n1 ,5",
\* "2, 115, N1", ",,", " ", "1 1 5", "N1,", "x"
LineTexts ==
    { <<>>,
      <<"5">>,
      <<"n", "1">>,
      <<" ", "n", "1", " ", ",", "5">>,
      <<"2", ",", " ", "1", "1", "5", ",", " ", "N", "1">>,
      <<",", ",">>,
      <<" ">>,
      <<"1", " ", "1", " ", "5">>,
      <<"N", "1", ",">>,
      <<"x">> }

InitFilter ==
    /\ snapshot \in SeqsUpTo(FilterVehicles, MaxRaw)
    /\ filters = DefaultFilters
    /\ filteredVehicles = FilteredVehicles(snapshot, filters)
    /\ tramCount = TramCount(snapshot, filters)
    /\ busCount = BusCount(snapshot, filters)
    /\ inRoutes = <<>>
    /\ newRouteInfo = EmptyMap
    /\ inVehicles = <<>>
    /\ enrichedVehicles = <<>>
    /\ purePc = "idle"
    /\ AppIdle
    /\ RetryIdle

\* lines 292-294: handleFilterChange(key, value), and the render it causes
HandleFilterChange(key, value) ==
    /\ filters' = [filters EXCEPT ![key] = value]
    /\ Render(snapshot, filters')
    /\ UNCHANGED snapshot
    /\ UNCHANGED <<appVars, retryVars, classifyVars>>

ChangeLine == \E text \in LineTexts : HandleFilterChange("line", text)

ChangeType == \E t \in {"ALL", "BUS", "TRAM"} : HandleFilterChange("type", t)

ChangeDelay ==
    \E d \in {"ALL", "ON_TIME", "DELAYED"} : HandleFilterChange("delay", d)

NextFilter == ChangeLine \/ ChangeType \/ ChangeDelay

SpecFilter == InitFilter /\ [][NextFilter]_vars

(***************************************************************************)
(* C3: no vehicle-positions request has been issued, and the interval      *)
(* timer has not been set, unless the reference mapping is non-empty and   *)
(* no fatal error is set.                                                  *)
(***************************************************************************)
C3_PollingGated ==
    (Len(cycles) > 0 \/ intervalId # "none") =>
        (MapSize(routeInfo) > 0 /\ initError = Null)

\* the loop runs: the immediate request was issued and the timer is set
C3_Witness == Len(cycles) > 0 /\ intervalId = "active"

(***************************************************************************)
(* C4: when the route load fails (fetchWithRetry threw, the response is    *)
(* not ok, or the body does not hold the routes list of a first bucket)    *)
(* fatalError is set, loading has ended, the mapping is empty, no vehicle  *)
(* request was issued, no timer is set and vehicles is empty; and once     *)
(* fatalError is set it never changes, the route request is never issued   *)
(* again, and the mapping and vehicles stay empty.                         *)
(***************************************************************************)
ClaimRouteLoadFailed ==
    \/ routeCall.phase = "thrown"
    \/ /\ routeCall.phase = "returned"
       /\ \/ routeCall.response.status < 200
          \/ routeCall.response.status > 299
          \/ routeCall.response.body.kind # "data"

C4_FatalState ==
    /\ ClaimRouteLoadFailed =>
        /\ initError # Null
        /\ ~isLoading
    /\ initError # Null =>
        /\ ClaimRouteLoadFailed
        /\ routeInfo = EmptyMap
        /\ vehicles = <<>>
        /\ cycles = <<>>
        /\ intervalId = "none"

C4_FatalIsFinal ==
    /\ []C4_FatalState
    /\ [][initError # Null =>
            /\ initError' = initError
            /\ routeCall' = routeCall
            /\ isLoading' = isLoading]_vars

\* a 404 was returned by fetchWithRetry on the first attempt, the load failed,
\* and the polling effect has run since without starting the loop
C4_Witness ==
    /\ initError # Null
    /\ routeCall.phase = "returned"
    /\ routeCall.response.status = 404
    /\ routeCall.response.body.kind = "data"
    /\ lifecycle = "mounted"
    /\ ~effectPending

(***************************************************************************)
(* C5: the step that completes a failing refresh cycle (fetchWithRetry     *)
(* threw, or the body is unparsable or has no vehicles list) changes       *)
(* neither vehicles nor lastUpdate, sets transientError, and leaves the    *)
(* interval timer as it was.                                               *)
(***************************************************************************)
CycleCompletes == lastDone'.cycle # lastDone.cycle

ClaimCycleFailed(r) ==
    r.failed \/ r.status >= 500 \/ r.body.kind # "data"

C5_FailureKeepsSnapshot ==
    [][(CycleCompletes /\ ClaimCycleFailed(lastDone'.response)) =>
          /\ vehicles' = vehicles
          /\ lastUpdate' = lastUpdate
          /\ apiError' # Null
          /\ intervalId' = intervalId]_vars

\* a cycle failed after an earlier success: the data of that success is still
\* published, the error is shown, and the timer can fire again
C5_Witness ==
    /\ lastDone.outcome = "failed"
    /\ lastDone.previous = "ok"
    /\ vehicles # <<>>
    /\ lastUpdate # ""
    /\ apiError # Null
    /\ intervalId = "active"
    /\ ENABLED Tick

(***************************************************************************)
(* C6: the step that completes a successful refresh cycle sets vehicles to *)
(* the enrichment of the payload's list and nothing else, sets lastUpdate  *)
(* to the payload's timestamp if that is non-empty and keeps it otherwise, *)
(* and clears transientError.                                              *)
(***************************************************************************)
C6_SuccessReplaces ==
    [][(CycleCompletes /\ ~ClaimCycleFailed(lastDone'.response)) =>
          LET body == lastDone'.response.body IN
          /\ vehicles' = Enrich(body.list, routeInfo)
          /\ Len(vehicles') = Len(body.list)
          /\ lastUpdate' = (IF body.lastUpdate = "" THEN lastUpdate
                            ELSE body.lastUpdate)
          /\ apiError' = Null]_vars

\* a success right after a failure, with a payload that carries no timestamp:
\* the error is cleared, the earlier timestamp is kept, the list is the new one
C6_Witness ==
    /\ lastDone.outcome = "ok"
    /\ lastDone.previous = "failed"
    /\ lastDone.response.body.lastUpdate = ""
    /\ lastUpdate = "t2"
    /\ Len(vehicles) = 1
    /\ apiError = Null

(***************************************************************************)
(* C7: as claimed, isInitialLoading is true exactly while no refresh cycle *)
(* has completed.                                                          *)
(***************************************************************************)
SomeCycleCompleted == \E k \in 1..Len(cycles) : cycles[k].status # "inflight"

C7_ExactlyUntilFirstCycle == isLoading <=> ~SomeCycleCompleted

(***************************************************************************)
(* C7, amended: isInitialLoading is true exactly while no refresh cycle    *)
(* has completed and the route load has not failed; once false it is       *)
(* never true again.                                                       *)
(***************************************************************************)
C7_UntilFirstCycleOrFatal ==
    /\ [](isLoading <=> (~SomeCycleCompleted /\ initError = Null))
    /\ [][~isLoading => ~isLoading']_vars

\* the second invocation completed while the first is still in flight, and a
\* third has started since: loading is over
C7_Witness ==
    /\ Len(cycles) = 3
    /\ cycles[1].status = "inflight"
    /\ cycles[2].status # "inflight"
    /\ cycles[3].status = "inflight"
    /\ ~isLoading

ClaimIsTram(name) ==
    \/ Len(name) = 1 /\ name[1] \in Digits
    \/ Len(name) = 2 /\ name[1] \in Digits /\ name[2] \in Digits

ClaimKind(name) == IF ClaimIsTram(name) THEN "TRAM" ELSE "BUS"

NamedEntries(routes) ==
    {k \in 1..Len(routes) :
        ~routes[k].isNull /\ routes[k].routeShortName # <<>>}

LastEntry(routes, name) ==
    CHOOSE k \in NamedEntries(routes) :
        /\ routes[k].routeShortName = name
        /\ \A j \in NamedEntries(routes) :
              routes[j].routeShortName = name => j <= k

C9_RouteReference ==
    purePc \in {"built", "enriched"} =>
        /\ DOMAIN newRouteInfo =
              {inRoutes[k].routeShortName : k \in NamedEntries(inRoutes)}
        /\ \A n \in DOMAIN newRouteInfo :
              /\ newRouteInfo[n] \in {"BUS", "TRAM"}
              /\ (newRouteInfo[n] = "TRAM") <=> ClaimIsTram(n)
              /\ newRouteInfo[n] =
                    ClaimKind(inRoutes[LastEntry(inRoutes, n)].routeShortName)

\* a three-digit name is a bus, next to a two-digit tram
C9_Witness ==
    /\ purePc = "built"
    /\ <<"1", "2", "5">> \in DOMAIN newRouteInfo
    /\ newRouteInfo[<<"1", "2", "5">>] = "BUS"
    /\ <<"1", "2">> \in DOMAIN newRouteInfo
    /\ newRouteInfo[<<"1", "2">>] = "TRAM"

(***************************************************************************)
(* C10: enrichment keeps every record and gives it the mapping's value for *)
(* its routeShortName (exact key) when present and BUS when absent, so     *)
(* every kind is BUS or TRAM, and a one- or two-digit name missing from    *)
(* the mapping is a BUS.                                                   *)
(***************************************************************************)
C10_Enrichment ==
    purePc = "enriched" =>
        /\ Len(enrichedVehicles) = Len(inVehicles)
        /\ \A k \in 1..Len(inVehicles) :
              LET v == inVehicles[k]
                  e == enrichedVehicles[k]
              IN  /\ e.vehicleId = v.vehicleId
                  /\ e.routeShortName = v.routeShortName
                  /\ e.delay = v.delay
                  /\ e.vehicleType \in {"BUS", "TRAM"}
                  /\ v.routeShortName \in DOMAIN newRouteInfo =>
                        e.vehicleType = newRouteInfo[v.routeShortName]
                  /\ v.routeShortName \notin DOMAIN newRouteInfo =>
                        e.vehicleType = "BUS"

\* line 5 is a tram of the mapping; line 12 is missing from it and is a bus
C10_Witness ==
    /\ purePc = "enriched"
    /\ Len(enrichedVehicles) = 2
    /\ enrichedVehicles[1].routeShortName = <<"5">>
    /\ enrichedVehicles[1].vehicleType = "TRAM"
    /\ enrichedVehicles[2].routeShortName = <<"1", "2">>
    /\ <<"1", "2">> \notin DOMAIN newRouteInfo
    /\ enrichedVehicles[2].vehicleType = "BUS"

(***************************************************************************)
(* C13: the wait after the failed attempt with index i is delay * 2^i; a   *)
(* wait follows a retryable attempt only when i < retries and is followed  *)
(* by the next attempt; nothing is waited for before the first attempt or  *)
(* between the last attempt and the terminal error.                        *)
(***************************************************************************)
\* index (from 0) of the attempt logged at position p of the events
AttemptIndex(p) ==
    Cardinality({q \in 1..p : events[q].ev = "attempt"}) - 1

RECURSIVE TwoToThe(_)
TwoToThe(n) == IF n = 0 THEN 1 ELSE 2 * TwoToThe(n - 1)

C13_Backoff ==
    /\ events # <<>> => events[1].ev = "attempt"
    /\ \A p \in 1..Len(events) :
          events[p].ev = "wait" =>
              /\ p > 1
              /\ events[p - 1].ev = "attempt"
              /\ ~ClaimAcceptable(events[p - 1].r)
              /\ AttemptIndex(p) < call.retries
              /\ events[p].ms = call.delay * TwoToThe(AttemptIndex(p))
    /\ \A p \in 1..(Len(events) - 1) :
          events[p].ev = "attempt" => events[p + 1].ev = "wait"
    /\ (events # <<>> /\ events[Len(events)].ev = "wait") =>
          call.phase = "fetch"
    /\ (events # <<>> /\ events[Len(events)].ev = "attempt") =>
          /\ (call.phase = "backoff") <=>
                (/\ ~ClaimAcceptable(events[Len(events)].r)
                 /\ AttemptIndex(Len(events)) < call.retries)
          /\ (call.phase = "thrown") <=>
                (/\ ~ClaimAcceptable(events[Len(events)].r)
                 /\ AttemptIndex(Len(events)) = call.retries)
    /\ (call.delay = 500 /\ Len(events) >= 4) =>
          events[2].ms = 500 /\ events[4].ms = 1000

\* three retries: waits of 500, 1000 and 2000 ms, then the terminal error
\* right after the fourth attempt
C13_Witness ==
    /\ call.retries = 3
    /\ call.delay = 500
    /\ call.phase = "thrown"
    /\ Len(events) = 7
    /\ events[2].ms = 500
    /\ events[4].ms = 1000
    /\ events[6].ms = 2000
    /\ events[7].ev = "attempt"

(***************************************************************************)
(* C11: the filtered list is exactly the vehicles of the snapshot, in      *)
(* their order, that pass the type, delay and line predicates together     *)
(* (type: ALL or equal kind; delay: ALL, DELAYED with delay > 120, ON_TIME *)
(* with delay <= 120; line: no name in the text, or the uppercased         *)
(* routeShortName is one of the trimmed, uppercased, non-empty pieces      *)
(* between commas), and each of the six orders of the three filters gives  *)
(* that same list.                                                         *)
(***************************************************************************)
\* the pieces of the text between commas, as pairs of first and last position
ClaimPieces(text) ==
    {pc \in (1..(Len(text) + 1)) \X (0..Len(text)) :
        /\ pc[1] <= pc[2] + 1
        /\ pc[1] = 1 \/ text[pc[1] - 1] = ","
        /\ pc[2] = Len(text) \/ text[pc[2] + 1] = ","
        /\ \A k \in pc[1]..pc[2] : text[k] # ","}

\* a piece without the blanks around it, in capitals
ClaimName(text, pc) ==
    LET inked == {k \in pc[1]..pc[2] : text[k] # " "}
    IN  IF inked = {} THEN <<>>
        ELSE LET a == CHOOSE k \in inked : \A j \in inked : k <= j
                 b == CHOOSE k \in inked : \A j \in inked : j <= k
             IN  [k \in 1..(b - a + 1) |-> UpperChar(text[a + k - 1])]

ClaimLineNames(text) ==
    {ClaimName(text, pc) : pc \in ClaimPieces(text)} \ {<<>>}

ClaimPasses(v, f) ==
    /\ f.type = "ALL" \/ v.vehicleType = f.type
    /\ \/ f.delay = "ALL"
       \/ f.delay = "DELAYED" /\ v.delay > 120
       \/ f.delay = "ON_TIME" /\ v.delay <= 120
    /\ \/ ClaimLineNames(f.line) = {}
       \/ [k \in 1..Len(v.routeShortName) |-> UpperChar(v.routeShortName[k])]
             \in ClaimLineNames(f.line)

C11_FilterIntersection ==
    /\ filteredVehicles = SelectSeq(snapshot, LAMBDA v : ClaimPasses(v, filters))
    /\ filteredVehicles = ByLine(ByType(ByDelay(snapshot, filters), filters), filters)
    /\ filteredVehicles = ByType(ByLine(ByDelay(snapshot, filters), filters), filters)
    /\ filteredVehicles = ByType(ByDelay(ByLine(snapshot, filters), filters), filters)
    /\ filteredVehicles = ByDelay(ByType(ByLine(snapshot, filters), filters), filters)
    /\ filteredVehicles = ByDelay(ByLine(ByType(snapshot, filters), filters), filters)
    /\ filters.line = <<"2", ",", " ", "1", "1", "5", ",", " ", "N", "1">> =>
          ParseLines(filters.line) = << <<"2">>, <<"1", "1", "5">>, <<"N", "1">> >>

\* the text " n1 ,5" with DELAYED: line n1 (delay 200) passes in lower case,
\* line 5 with a delay of exactly 120 does not
C11_Witness ==
    /\ filters.line = <<" ", "n", "1", " ", ",", "5">>
    /\ filters.delay = "DELAYED"
    /\ Len(snapshot) = 2
    /\ snapshot[1].vehicleId = 2
    /\ snapshot[2].vehicleId = 3
    /\ Len(filteredVehicles) = 1
    /\ filteredVehicles[1].vehicleId = 3

(***************************************************************************)
(* C12: tramCount and busCount are the numbers of TRAM and BUS vehicles of *)
(* the filtered list, so they add up to its length; an empty snapshot      *)
(* gives an empty filtered list and two zero counts whatever the filters.  *)
(***************************************************************************)
ClaimCount(vs, kind) ==
    Cardinality({k \in 1..Len(vs) : vs[k].vehicleType = kind})

C12_CountsOfFiltered ==
    /\ tramCount = ClaimCount(filteredVehicles, "TRAM")
    /\ busCount = ClaimCount(filteredVehicles, "BUS")
    /\ busCount + tramCount = Len(filteredVehicles)
    /\ snapshot = <<>> =>
          filteredVehicles = <<>> /\ busCount = 0 /\ tramCount = 0

\* a tram of the snapshot is filtered out and is not counted
C12_Witness ==
    /\ filters.type = "BUS"
    /\ Len(snapshot) = 2
    /\ snapshot[1].vehicleType = "TRAM"
    /\ snapshot[2].vehicleType = "BUS"
    /\ tramCount = 0
    /\ busCount = 1

(***************************************************************************)
(* C14, as claimed: while the interval is set a tick can start a request   *)
(* whatever is in flight; once every started cycle has completed, vehicles *)
(* and lastUpdate are those of the payload of the successful cycle that    *)
(* completed last, and transientError is set iff the cycle that completed  *)
(* last failed.                                                            *)
(***************************************************************************)
AllCyclesDone ==
    /\ cycles # <<>>
    /\ \A k \in 1..Len(cycles) : cycles[k].status # "inflight"

TickNeverSkipped ==
    (intervalId = "active" /\ Len(cycles) < MaxCycles) => ENABLED Tick

ErrorOfLastCompleted ==
    AllCyclesDone => ((apiError = Null) <=> (lastDone.outcome = "ok"))

C14_LastCompletedPayloadWins ==
    /\ TickNeverSkipped
    /\ ErrorOfLastCompleted
    /\ (AllCyclesDone /\ lastDone.okCycle # 0) =>
          /\ vehicles = Enrich(lastDone.okBody.list, routeInfo)
          /\ lastUpdate = lastDone.okBody.lastUpdate

(***************************************************************************)
(* C14, amended: as above, but lastUpdate is the timestamp of the          *)
(* successful cycle that completed last among those whose payload carried  *)
(* a non-empty timestamp (the empty text if there was none).               *)
(***************************************************************************)
C14_LastCompletedWins ==
    /\ TickNeverSkipped
    /\ ErrorOfLastCompleted
    /\ (AllCyclesDone /\ lastDone.okCycle # 0) =>
          /\ vehicles = Enrich(lastDone.okBody.list, routeInfo)
          /\ lastUpdate = lastDone.stamp
    /\ (AllCyclesDone /\ lastDone.okCycle = 0) =>
          vehicles = <<>> /\ lastUpdate = ""

\* three cycles overlapped; the third completed first and the second next,
\* both successfully; the first, started before them, completed last with
\* another payload, which is the one published
C14_Witness ==
    /\ AllCyclesDone
    /\ Len(cycles) = 3
    /\ cycles[1].status = "ok"
    /\ cycles[2].status = "ok"
    /\ cycles[3].status = "ok"
    /\ lastDone.okCycle = 1
    /\ lastDone.stampCycle = 2
    /\ lastDone.okBody.lastUpdate = ""
    /\ Len(vehicles) = 1
    /\ lastUpdate = "t2"
    /\ apiError = Null

(***************************************************************************)
(* C15: in a session in which every request settles and every timer fires, *)
(* eventually fatalError is set or isInitialLoading is false.              *)
(***************************************************************************)
C15_LoadingEnds == <>(initError # Null \/ ~isLoading)
====
